---- MODULE Spec2Model ----
(***************************************************************************)
(* State-machine model of the AMR repair pipeline of scripts/process_amr.py *)
(* (clean_amr, remove_duplicate_triples, validate_amr, process_csv) and of  *)
(* the corpus analysis of scripts/amr_validation.py (analyze_amr_file).     *)
(*                                                                         *)
(* A text is a sequence of one-character strings.                          *)
(***************************************************************************)
EXTENDS Integers, Sequences, FiniteSets

\* ------------------------------------------------------------------ bounds
\* Longest item, in lines, that the batch reads from the CSV.
MaxLines == 3
\* Rows of the data frame (items per column).
MaxItems == 2
\* Blocks of the analysed file, and triples of one decoded graph.
MaxBlocks == 3
MaxTriples == 3

\* --------------------------------------------------------- character classes
NL == "\n"
Whitespace == {" ", NL, "\t", "\r"}
Lower == {"a", "b", "c", "d", "e", "f", "g", "h", "i", "j", "k", "l", "m",
          "n", "o", "p", "q", "r", "s", "t", "u", "v", "w", "x", "y", "z"}
Upper == {"A", "B", "C", "D", "E", "F", "G", "H", "I", "J", "K", "L", "M",
          "N", "O", "P", "Q", "R", "S", "T", "U", "V", "W", "X", "Y", "Z"}
Digit == {"0", "1", "2", "3", "4", "5", "6", "7", "8", "9"}
\* \w of the role pattern
WordChar == Lower \cup Upper \cup Digit \cup {"_"}
\* [\w-] of the role pattern
RoleChar == WordChar \cup {"-"}
\* [a-z0-9] of the node-definition pattern
VarChar == Lower \cup Digit

\* ------------------------------------------------------------ text helpers
SetMax(S) == CHOOSE x \in S : \A y \in S : y <= x

\* s[from..], the suffix starting at index from
Drop(s, from) == SubSeq(s, from, Len(s))

\* str.count(c)
Count(s, c) == Cardinality({i \in 1..Len(s) : s[i] = c})

\* str.startswith(p)
StartsWith(s, p) == Len(s) >= Len(p) /\ SubSeq(s, 1, Len(p)) = p

\* str.strip(): leading and trailing whitespace removed
Strip(s) ==
  LET keep == {i \in 1..Len(s) : s[i] \notin Whitespace}
  IN IF keep = {} THEN <<>>
     ELSE SubSeq(s, CHOOSE i \in keep : \A j \in keep : i <= j, SetMax(keep))

\* str.split('\n'): the segments between newlines, empty ones included
RECURSIVE SplitLines(_)
SplitLines(s) ==
  LET nls == {i \in 1..Len(s) : s[i] = NL}
  IN IF nls = {} THEN <<s>>
     ELSE LET i == CHOOSE k \in nls : \A j \in nls : k <= j
          IN <<SubSeq(s, 1, i - 1)>> \o SplitLines(Drop(s, i + 1))

\* "\n".join(lines)
RECURSIVE JoinLines(_)
JoinLines(ls) ==
  IF Len(ls) = 0 THEN <<>>
  ELSE IF Len(ls) = 1 THEN ls[1]
  ELSE ls[1] \o <<NL>> \o JoinLines(Tail(ls))

\* line 25: [line.strip() for line in ... if line.strip()]
RECURSIVE StripNonBlank(_)
StripNonBlank(ls) ==
  IF ls = <<>> THEN <<>>
  ELSE IF Strip(ls[1]) = <<>> THEN StripNonBlank(Tail(ls))
  ELSE <<Strip(ls[1])>> \o StripNonBlank(Tail(ls))

\* ------------------------------------------------------- clean_amr, lines
SntMarker == <<"#", " ", ":", ":", "s", "n", "t">>

\* lines 25-27: strip, drop blank lines, drop a leading "# ::snt" line
InputLines(amr_str) ==
  LET lines == StripNonBlank(SplitLines(amr_str))
  IN IF lines # <<>> /\ StartsWith(lines[1], SntMarker) THEN Tail(lines) ELSE lines

\* str.replace(" ", "_")
Underscore(s) == [i \in 1..Len(s) |-> IF s[i] = " " THEN "_" ELSE s[i]]

\* lines 32-35: multi-word node names
FixNodeName(line) ==
  IF Len(line) > 0 /\ line[1] = "(" /\ \E i \in 1..Len(line) : line[i] = "/"
  THEN LET slash == CHOOSE i \in 1..Len(line) :
                      line[i] = "/" /\ \A j \in 1..(i - 1) : line[j] # "/"
       IN SubSeq(line, 1, slash - 1) \o <<"/">> \o Underscore(Strip(Drop(line, slash + 1)))
  ELSE line

\* The role pattern (:[\w-]+)(?=[^\s/]) tried at index i: the number of
\* identifier characters of the match (the longest count for which the
\* look-ahead succeeds, as the greedy quantifier backtracks), 0 for no match.
RoleMatchLen(line, i) ==
  IF line[i] # ":" THEN 0
  ELSE LET run == {k \in 1..(Len(line) - i) :
                     \A j \in 1..k : line[i + j] \in RoleChar}
           ok == {k \in run : i + k + 1 <= Len(line)
                              /\ line[i + k + 1] \notin Whitespace
                              /\ line[i + k + 1] # "/"}
       IN IF ok = {} THEN 0 ELSE SetMax(ok)

\* line 38: re.sub of the role pattern by "\1 ". The scan is a left fold over
\* the indices lo..hi of the line; its state is <<output so far, index the
\* scan resumes at>>. RoleStep is the scan at one index: inside the last
\* match nothing happens, a match is copied with a space after it, any other
\* character is copied. The fold splits its range in two and finishes the
\* first half before the second; once the scan is to resume past hi, the
\* rest of the range lies inside the last match and is skipped.
RoleStep(line, st, i) ==
  IF i < st[2] THEN st
  ELSE LET k == RoleMatchLen(line, i)
       IN IF k = 0 THEN <<Append(st[1], line[i]), i + 1>>
          ELSE <<st[1] \o SubSeq(line, i, i + k) \o <<" ">>, i + k + 1>>

RECURSIVE RoleScan(_, _, _, _)
RoleScan(line, lo, hi, st) ==
  IF lo > hi THEN st
  ELSE IF lo = hi THEN RoleStep(line, st, lo)
  ELSE LET mid == (lo + hi) \div 2
           left == RoleScan(line, lo, mid, st)
       IN IF left[2] > hi THEN left ELSE RoleScan(line, mid + 1, hi, left)

RoleSub(line) == RoleScan(line, 1, Len(line), <<<<>>, 1>>)[1]

\* lines 30-40: the loop body for one line
CleanLine(line) == RoleSub(FixNodeName(line))

\* lines 25-43: the normalised text, before the parentheses are balanced
Normalize(amr_str) ==
  LET lines == InputLines(amr_str)
  IN JoinLines([i \in 1..Len(lines) |-> CleanLine(lines[i])])

\* ---------------------------------------------------- clean_amr, brackets
\* The node-definition pattern (\([a-z0-9]+\s+/[^)]+)(\n|$) tried at index
\* i: the index just after group 1 (where the ")" is inserted), 0 for no
\* match. Group 2 is the newline at that index, or the end of the text.
NodeMatchEnd(t, i) ==
  IF t[i] # "(" THEN 0
  ELSE LET n == Len(t)
           vars == {k \in 1..(n - i) : \A j \in 1..k : t[i + j] \in VarChar}
       IN IF vars = {} THEN 0
          ELSE LET v == i + SetMax(vars)
                   sps == {k \in 1..(n - v) : \A j \in 1..k : t[v + j] \in Whitespace}
               IN IF sps = {} THEN 0
                  ELSE LET s == v + SetMax(sps)
                       IN IF s + 1 > n \/ t[s + 1] # "/" THEN 0
                          ELSE LET p == s + 1
                                   ends == {q \in (p + 2)..(n + 1) :
                                              /\ \A j \in (p + 1)..(q - 1) : t[j] # ")"
                                              /\ (q = n + 1 \/ t[q] = NL)}
                               IN IF ends = {} THEN 0 ELSE SetMax(ends)

\* line 46: re.sub of the node-definition pattern by "\1)\2", as a left fold
\* over the indices of the text with the state <<output so far, index the
\* scan resumes at>>
CloseStep(t, st, i) ==
  IF i < st[2] THEN st
  ELSE LET q == NodeMatchEnd(t, i)
       IN IF q = 0 THEN <<Append(st[1], t[i]), i + 1>>
          ELSE IF q = Len(t) + 1 THEN <<st[1] \o SubSeq(t, i, q - 1) \o <<")">>, q>>
          ELSE <<st[1] \o SubSeq(t, i, q - 1) \o <<")", NL>>, q + 1>>

RECURSIVE CloseScan(_, _, _, _)
CloseScan(t, lo, hi, st) ==
  IF lo > hi THEN st
  ELSE IF lo = hi THEN CloseStep(t, st, lo)
  ELSE LET mid == (lo + hi) \div 2
           left == CloseScan(t, lo, mid, st)
       IN IF left[2] > hi THEN left ELSE CloseScan(t, mid + 1, hi, left)

CloseNodes(t) == CloseScan(t, 1, Len(t), <<<<>>, 1>>)[1]

\* lines 51-60: the loop body for one character; the state is
\* <<fixed, len(stack)>>. A ")" met with an empty stack is dropped.
ScrubStep(st, char) ==
  IF char = "(" THEN <<Append(st[1], char), st[2] + 1>>
  ELSE IF char = ")"
    THEN IF st[2] > 0 THEN <<Append(st[1], char), st[2] - 1>> ELSE st
  ELSE <<Append(st[1], char), st[2]>>

\* lines 49-60: the loop over the characters lo..hi, left to right: the
\* first half of the range, then (the stack's size is never negative) the
\* second half from the state the first half left
RECURSIVE ScrubScan(_, _, _, _)
ScrubScan(t, lo, hi, st) ==
  IF lo > hi THEN st
  ELSE IF lo = hi THEN ScrubStep(st, t[lo])
  ELSE LET mid == (lo + hi) \div 2
           left == ScrubScan(t, lo, mid, st)
       IN IF left[2] >= 0 THEN ScrubScan(t, mid + 1, hi, left) ELSE left

\* ")" * n
Closers(n) == [i \in 1..n |-> ")"]

\* Scrub without line 63's closers for the openers left on the stack
ScrubNoAppend(t) == ScrubScan(t, 1, Len(t), <<<<>>, 0>>)[1]

\* lines 49-63
Scrub(t) == LET r == ScrubScan(t, 1, Len(t), <<<<>>, 0>>) IN r[1] \o Closers(r[2])

\* lines 45-63: the two bracket repairs in sequence
Balance(t) == Scrub(CloseNodes(t))

\* lines 16-63
clean_amr(amr_str) == Balance(Normalize(amr_str))

\* ------------------------------------------------ remove_duplicate_triples
\* The loop of lines 70-86 with the line itself, not its stripped form,
\* looked up in and added to seen
RECURSIVE DedupRawFrom(_, _, _)
DedupRawFrom(ls, i, seen) ==
  IF i > Len(ls) THEN <<<<>>, 0>>
  ELSE LET line == ls[i]
           stripped == Strip(line)
       IN IF stripped = <<>> \/ StartsWith(stripped, <<"#">>)
          THEN LET r == DedupRawFrom(ls, i + 1, seen) IN <<<<line>> \o r[1], r[2]>>
          ELSE IF line \in seen
          THEN LET r == DedupRawFrom(ls, i + 1, seen) IN <<r[1], r[2] + 1>>
          ELSE LET r == DedupRawFrom(ls, i + 1, seen \cup {line})
               IN <<<<line>> \o r[1], r[2]>>

\* lines 70-86: the loop over the lines; the result is
\* <<cleaned_lines, duplicates_removed>>
RECURSIVE DedupFrom(_, _, _)
DedupFrom(ls, i, seen) ==
  IF i > Len(ls) THEN <<<<>>, 0>>
  ELSE LET line == ls[i]
           stripped == Strip(line)
       IN IF stripped = <<>> \/ StartsWith(stripped, <<"#">>)
          THEN LET r == DedupFrom(ls, i + 1, seen) IN <<<<line>> \o r[1], r[2]>>
          ELSE IF stripped \in seen
          THEN LET r == DedupFrom(ls, i + 1, seen) IN <<r[1], r[2] + 1>>
          ELSE LET r == DedupFrom(ls, i + 1, seen \cup {stripped})
               IN <<<<line>> \o r[1], r[2]>>

\* lines 65-88: <<text, duplicates_removed>>
remove_duplicate_triples(amr_str) ==
  LET r == DedupFrom(SplitLines(amr_str), 1, {})
  IN <<JoinLines(r[1]), r[2]>>

\* ------------------------------------------------------------ validate_amr
\* What one call of penman's decode can do: return a graph, raise
\* DecodeError, or raise another exception.
DecodeOutcome == {"ok", "DecodeError", "Exception"}

\* line 104, 106: the dummy AMR
Sentinel == <<"(", "g", " ", "/", " ", "g", "g", "g", "g", "g", "g", ")">>

\* Line 99 with one closer appended whatever the counts are
AppendOneCloser(amr_str) == amr_str \o <<")">>

\* line 99: amr_str + ")" * (amr_str.count("(") - amr_str.count(")"))
AppendClosers(amr_str) == amr_str \o Closers(Count(amr_str, "(") - Count(amr_str, ")"))

\* validate_amr without the handler of lines 105-106: an exception of the
\* first call that is no DecodeError leaves the function
validate_amr_narrow(amr_str, o1, o2) ==
  IF o1 = "ok"
  THEN [raised |-> FALSE, result |-> <<TRUE, amr_str>>,
        calls |-> <<[text |-> amr_str, outcome |-> o1]>>]
  ELSE IF o1 = "DecodeError"
  THEN LET fixed == amr_str \o Closers(Count(amr_str, "(") - Count(amr_str, ")"))
           calls == <<[text |-> amr_str, outcome |-> o1], [text |-> fixed, outcome |-> o2]>>
       IN IF o2 = "ok"
          THEN [raised |-> FALSE, result |-> <<TRUE, fixed>>, calls |-> calls]
          ELSE [raised |-> FALSE, result |-> <<FALSE, Sentinel>>, calls |-> calls]
  ELSE [raised |-> TRUE, result |-> <<>>,
        calls |-> <<[text |-> amr_str, outcome |-> o1]>>]

\* lines 90-106, for the outcomes o1, o2 of the first and the second decode
\* call. result is the returned tuple; calls lists the texts decode was
\* called with and what it did; raised says an exception left the function.
validate_amr(amr_str, o1, o2) ==
  IF o1 = "ok"
  THEN [raised |-> FALSE, result |-> <<TRUE, amr_str>>,
        calls |-> <<[text |-> amr_str, outcome |-> o1]>>]
  ELSE IF o1 = "DecodeError"
  THEN LET fixed == AppendClosers(amr_str)
           calls == <<[text |-> amr_str, outcome |-> o1], [text |-> fixed, outcome |-> o2]>>
       IN IF o2 = "ok"
          THEN [raised |-> FALSE, result |-> <<TRUE, fixed>>, calls |-> calls]
          ELSE [raised |-> FALSE, result |-> <<FALSE, Sentinel>>, calls |-> calls]
  ELSE [raised |-> FALSE, result |-> <<FALSE, Sentinel>>,
        calls |-> <<[text |-> amr_str, outcome |-> o1]>>]

\* ----------------------------------------------------------------- inputs
\* The lines an item of the CSV is made of: well-formed and malformed
\* fragments of graph notation.
ItemLines ==
  { <<"(", "(">>,
    <<")">>,
    <<")", ")", ")">>,
    <<"(", "a", " ", "/", " ", "b", " ", "c">>,
    <<":", "A", "R", "G", "0", " ", "x">>,
    <<":", "A", "R", "G", "0", "(", "b", " ", "/", " ", "c", ")">>,
    <<"#", " ", ":", ":", "s", "n", "t", " ", "s">>,
    <<"(", "g", " ", "/", " ", "g", "g", "g", "g", ")", " ", ":", "A", "R", "G", "0", " ", "x">>,
    <<" ">> }

\* Every text of at most n lines, each drawn from lineSet
TextsOf(lineSet, n) ==
  {JoinLines(ls) : ls \in UNION {[1..k -> lineSet] : k \in 0..n}}

Items == TextsOf(ItemLines, MaxLines)

\* The lines remove_duplicate_triples is called with when it is called on its
\* own: triples, comments and blank lines, with and without surrounding blanks
TripleLines ==
  { <<>>,
    <<" ">>,
    <<"x">>,
    <<" ", "x">>,
    <<"x", " ">>,
    <<"#", " ", "c">>,
    <<" ", "#", " ", "c">>,
    <<":", "A", "R", "G", "1", " ", "x">> }

TripleTexts == TextsOf(TripleLines, MaxLines)

\* ------------------------------------------------------------ process_csv
VARIABLES
  pc,             \* the line the program is at
  col,            \* index of the column being processed (line 128)
  row,            \* items of the column already written
  amr,            \* the item read from the column (line 139)
  normalized,     \* clean_amr's joined lines (line 43)
  cleaned,        \* clean_amr's result (line 141)
  deduped,        \* cleaned after remove_duplicate_triples (line 144)
  duplicates,     \* lines dropped from the item (line 144)
  is_valid,       \* what validate_amr returned (line 148)
  calls,          \* the decode calls validate_amr made
  valid_count, invalid_count,
  written,        \* the text written for the item (lines 152, 155)
  results,        \* the per-column report (lines 157-162)
  \* ---- analyze_amr_file
  idx,            \* blocks of the file already looked at
  valid,          \* blocks decoded
  dup_counts,     \* duplicates: key -> count (line 25)
  error_lines,    \* 1-based indices of the blocks that failed (line 44)
  all_triples,    \* every decoded triple so far, over all graphs: key -> count
  report          \* the returned tuple (line 49), <<>> before the return

pipeVars == <<pc, col, row, amr, normalized, cleaned, deduped, duplicates,
              is_valid, calls, valid_count, invalid_count, written, results>>
fileVars == <<idx, valid, dup_counts, error_lines, all_triples, report>>
vars == <<pipeVars, fileVars>>

\* line 128: ['amr_graph', 'generated_amr']
Columns == <<"amr_graph", "generated_amr">>

\* len(df), the rows of the data frame
NumRows == MaxItems

\* line 155: the marker written before an invalid item
InvalidMarker == <<"#", " ", "I", "N", "V", "A", "L", "I", "D", " ", "A", "M", "R", NL>>

\* The truth value Python gives a tuple in a condition: true unless empty
Truthy(tuple) == Len(tuple) > 0

\* key -> 0 for the triples a decoded graph can hold
TripleKeys == { <<"a", ":instance", "want">>, <<"a", ":ARG0", "b">> }
NoCounts == [k \in TripleKeys |-> 0]

\* The values the item's local variables hold before the item is read
NoItem ==
  /\ amr = <<>> /\ normalized = <<>> /\ cleaned = <<>> /\ deduped = <<>>
  /\ duplicates = 0 /\ is_valid = <<>> /\ calls = <<>> /\ written = <<>>

FileIdle ==
  /\ idx = 0 /\ valid = 0 /\ dup_counts = NoCounts /\ error_lines = <<>>
  /\ all_triples = NoCounts /\ report = <<>>

\* lines 117-136: the state when the loop over the first column starts
Init ==
  /\ pc = "for" /\ col = 1 /\ row = 0
  /\ NoItem
  /\ valid_count = 0 /\ invalid_count = 0
  /\ results = <<>>
  /\ FileIdle

\* line 139: the next item of the column
Fetch ==
  /\ pc = "for" /\ row < NumRows
  /\ \E item \in Items : amr' = item
  /\ pc' = "clean"
  /\ UNCHANGED <<col, row, normalized, cleaned, deduped, duplicates, is_valid,
                 calls, valid_count, invalid_count, written, results, fileVars>>

\* line 141, clean_amr lines 25-43
CleanNormalize ==
  /\ pc = "clean"
  /\ normalized' = Normalize(amr)
  /\ pc' = "balance"
  /\ UNCHANGED <<col, row, amr, cleaned, deduped, duplicates, is_valid, calls,
                 valid_count, invalid_count, written, results, fileVars>>

\* line 141, clean_amr lines 45-63
CleanBalance ==
  /\ pc = "balance"
  /\ cleaned' = Balance(normalized)
  /\ pc' = "dedup"
  /\ UNCHANGED <<col, row, amr, normalized, deduped, duplicates, is_valid, calls,
                 valid_count, invalid_count, written, results, fileVars>>

\* line 144
Dedup ==
  /\ pc = "dedup"
  /\ LET r == remove_duplicate_triples(cleaned)
     IN deduped' = r[1] /\ duplicates' = r[2]
  /\ pc' = "validate"
  /\ UNCHANGED <<col, row, amr, normalized, cleaned, is_valid, calls,
                 valid_count, invalid_count, written, results, fileVars>>

\* line 148: validate_amr, whatever decode does; an exception that left
\* validate_amr would leave process_csv too (no handler in lines 139-155)
Validate ==
  /\ pc = "validate"
  /\ \E o1 \in DecodeOutcome, o2 \in DecodeOutcome :
       LET r == validate_amr(deduped, o1, o2)
       IN /\ calls' = r.calls
          /\ is_valid' = IF r.raised THEN is_valid ELSE r.result
          /\ pc' = IF r.raised THEN "raised" ELSE "branch"
  /\ UNCHANGED <<col, row, amr, normalized, cleaned, deduped, duplicates,
                 valid_count, invalid_count, written, results, fileVars>>

\* lines 150-155
Write ==
  /\ pc = "branch"
  /\ IF Truthy(is_valid)
     THEN /\ valid_count' = valid_count + 1
          /\ invalid_count' = invalid_count
          /\ written' = deduped \o <<NL, NL>>
     ELSE /\ valid_count' = valid_count
          /\ invalid_count' = invalid_count + 1
          /\ written' = InvalidMarker \o deduped \o <<NL, NL>>
  /\ pc' = "written"
  /\ UNCHANGED <<col, row, amr, normalized, cleaned, deduped, duplicates, is_valid,
                 calls, results, fileVars>>

\* line 139 again: the item is done, its locals are dead
LoopBack ==
  /\ pc = "written"
  /\ row' = row + 1
  /\ pc' = "for"
  /\ amr' = <<>> /\ normalized' = <<>> /\ cleaned' = <<>> /\ deduped' = <<>>
  /\ duplicates' = 0 /\ is_valid' = <<>> /\ calls' = <<>> /\ written' = <<>>
  /\ UNCHANGED <<col, valid_count, invalid_count, results, fileVars>>

\* lines 157-162, then lines 128-134 for the next column or line 164
ColumnDone ==
  /\ pc = "for" /\ row = NumRows
  /\ results' = Append(results, [total |-> NumRows, valid |-> valid_count,
                                 invalid |-> invalid_count])
  /\ IF col < Len(Columns)
     THEN col' = col + 1 /\ row' = 0 /\ valid_count' = 0 /\ invalid_count' = 0
          /\ pc' = "for"
     ELSE pc' = "report" /\ UNCHANGED <<col, row, valid_count, invalid_count>>
  /\ UNCHANGED <<amr, normalized, cleaned, deduped, duplicates, is_valid, calls,
                 written, fileVars>>

Next ==
  \/ Fetch
  \/ CleanNormalize
  \/ CleanBalance
  \/ Dedup
  \/ Validate
  \/ Write
  \/ LoopBack
  \/ ColumnDone

Spec == Init /\ [][Next]_vars

\* ------------------------------- remove_duplicate_triples, called on its own
InitDedup ==
  /\ pc = "call" /\ col = 1 /\ row = 0
  /\ amr \in TripleTexts
  /\ normalized = <<>> /\ cleaned = <<>> /\ deduped = <<>>
  /\ duplicates = 0 /\ is_valid = <<>> /\ calls = <<>> /\ written = <<>>
  /\ valid_count = 0 /\ invalid_count = 0
  /\ results = <<>>
  /\ FileIdle

\* lines 65-88
CallDedup ==
  /\ pc = "call"
  /\ LET r == remove_duplicate_triples(amr)
     IN deduped' = r[1] /\ duplicates' = r[2]
  /\ pc' = "returned"
  /\ UNCHANGED <<col, row, amr, normalized, cleaned, is_valid, calls,
                 valid_count, invalid_count, written, results, fileVars>>

NextDedup == CallDedup

SpecDedup == InitDedup /\ [][NextDedup]_vars

\* ------------------------------------------ amr_validation.analyze_amr_file
\* len(content): the blocks of the file
NumBlocks == MaxBlocks

\* graph.triples of a decoded block
RECURSIVE TripleLists(_)
TripleLists(n) ==
  IF n = 0 THEN {<<>>}
  ELSE LET shorter == TripleLists(n - 1)
       IN shorter \cup {Append(ts, k) : ts \in {t \in shorter : Len(t) = n - 1},
                                        k \in TripleKeys}

Graphs == TripleLists(MaxTriples) \ {<<>>}

\* lines 37-42: the loop over one graph's triples, from the i-th on
RECURSIVE TrackFrom(_, _, _, _)
TrackFrom(triples, i, seen, dups) ==
  IF i > Len(triples) THEN dups
  ELSE LET key == triples[i]
       IN TrackFrom(triples, i + 1, seen \cup {key},
                    IF key \in seen THEN [dups EXCEPT ![key] = @ + 1] ELSE dups)

\* History kept for the claim about the count, not by the program: every
\* triple of the graph added to the counts of all triples decoded so far
RECURSIVE TallyFrom(_, _, _)
TallyFrom(triples, i, tally) ==
  IF i > Len(triples) THEN tally
  ELSE TallyFrom(triples, i + 1, [tally EXCEPT ![triples[i]] = @ + 1])

\* line 47
cross_duplicates(dups) == Cardinality({k \in TripleKeys : dups[k] > 1})

InitAnalyze ==
  /\ pc = "scan" /\ col = 1 /\ row = 0
  /\ NoItem
  /\ valid_count = 0 /\ invalid_count = 0
  /\ results = <<>>
  /\ FileIdle

\* lines 29-31: a block that is blank after strip()
SkipBlank ==
  /\ pc = "scan" /\ idx < NumBlocks
  /\ idx' = idx + 1
  /\ UNCHANGED <<pipeVars, valid, dup_counts, error_lines, all_triples, report>>

\* lines 33-42: a block that decodes
DecodeGraph ==
  /\ pc = "scan" /\ idx < NumBlocks
  /\ \E triples \in Graphs :
       /\ dup_counts' = TrackFrom(triples, 1, {}, dup_counts)
       /\ all_triples' = TallyFrom(triples, 1, all_triples)
  /\ valid' = valid + 1
  /\ idx' = idx + 1
  /\ UNCHANGED <<pipeVars, error_lines, report>>

\* lines 43-44: a block decode raises on
DecodeFails ==
  /\ pc = "scan" /\ idx < NumBlocks
  /\ error_lines' = Append(error_lines, idx + 1)
  /\ idx' = idx + 1
  /\ UNCHANGED <<pipeVars, valid, dup_counts, all_triples, report>>

\* lines 47-49
Return ==
  /\ pc = "scan" /\ idx = NumBlocks
  /\ report' = <<NumBlocks, valid, cross_duplicates(dup_counts), error_lines>>
  /\ pc' = "returned"
  /\ UNCHANGED <<col, row, amr, normalized, cleaned, deduped, duplicates, is_valid,
                 calls, valid_count, invalid_count, written, results,
                 idx, valid, dup_counts, error_lines, all_triples>>

NextAnalyze ==
  \/ SkipBlank
  \/ DecodeGraph
  \/ DecodeFails
  \/ Return

SpecAnalyze == InitAnalyze /\ [][NextAnalyze]_vars

\* ================================================================== claims
\* <<net depth, lowest depth of a prefix>> of the brackets of t[lo..hi]
RECURSIVE Profile(_, _, _)
Profile(t, lo, hi) ==
  IF lo > hi THEN <<0, 0>>
  ELSE IF lo = hi
    THEN IF t[lo] = "(" THEN <<1, 0>>
         ELSE IF t[lo] = ")" THEN <<-1, -1>> ELSE <<0, 0>>
  ELSE LET mid == (lo + hi) \div 2
           l == Profile(t, lo, mid)
           r == Profile(t, mid + 1, hi)
       IN <<l[1] + r[1], IF l[1] + r[2] < l[2] THEN l[1] + r[2] ELSE l[2]>>

\* As many ")" as "(", and no prefix with more ")" than "("
Balanced(t) == LET p == Profile(t, 1, Len(t)) IN p[1] = 0 /\ p[2] = 0

Contains(t, part) ==
  \E i \in 1..(Len(t) - Len(part) + 1) : SubSeq(t, i, i + Len(part) - 1) = part

RECURSIVE IsSubsequence(_, _)
IsSubsequence(a, b) ==
  IF a = <<>> THEN TRUE
  ELSE IF b = <<>> THEN FALSE
  ELSE IF Head(a) = Head(b) THEN IsSubsequence(Tail(a), Tail(b))
  ELSE IsSubsequence(a, Tail(b))

\* A line that passes through the eliminator untouched: blank or a comment
PassesThrough(line) == Strip(line) = <<>> \/ Strip(line)[1] = "#"

\* Where a role token starts, and where its full identifier ends
RoleStarts(line) == {i \in 1..(Len(line) - 1) : line[i] = ":" /\ line[i + 1] \in RoleChar}
TokenEnd(line, i) ==
  i + SetMax({k \in 1..(Len(line) - i) : \A j \in 1..k : line[i + j] \in RoleChar})
Glued(line, i) ==
  LET e == TokenEnd(line, i)
  IN e < Len(line) /\ line[e + 1] \notin Whitespace /\ line[e + 1] # "/"
WellSpaced(line) ==
  \A i \in RoleStarts(line) :
    LET e == TokenEnd(line, i) IN e = Len(line) \/ line[e + 1] \in Whitespace
OpensNode(line) ==
  line # <<>> /\ line[1] = "(" /\ \E i \in 1..Len(line) : line[i] = "/"

\* C1: the text process_csv writes for an item has bracket depth zero, every
\* opener matched, also after remove_duplicate_triples dropped lines.
C1_ExitBalanced == pc = "written" => Balanced(written)

\* C2: the Bracket Balancer applied to its own output returns that output.
C2_BalanceIdempotent == pc = "dedup" => Balance(cleaned) = cleaned

\* C3: whatever the item, clean_amr's result has as many ")" as "(" and no
\* prefix of it has more ")" than "(".
C3_CleanBalanced == pc = "dedup" => Balanced(cleaned)

\* C3's case: the normalised text has a ")" no opener matches and openers of
\* its own, and clean_amr changed it.
C3_Witness ==
  /\ pc = "dedup"
  /\ Profile(normalized, 1, Len(normalized))[2] < 0
  /\ Count(normalized, "(") > 0
  /\ cleaned # normalized
  /\ Count(cleaned, ")") > 0

\* C4: whatever decode does on either call, validate_amr never raises and
\* returns a pair (is_valid, text); is_valid is true unless every step of the
\* ladder that was taken failed (false exactly when every decode call made
\* failed), and the text returned with a false is_valid is the sentinel.
C4_ValidateTotal ==
  /\ pc # "raised"
  /\ pc = "branch" =>
       /\ Len(is_valid) = 2
       /\ is_valid[1] \in BOOLEAN
       /\ is_valid[1] = FALSE <=> \A i \in 1..Len(calls) : calls[i].outcome # "ok"
       /\ is_valid[1] = TRUE => calls[Len(calls)].outcome = "ok"
       /\ is_valid[1] = FALSE => is_valid[2] = Sentinel

\* C4's case: both decode calls failed, the second not with a DecodeError.
C4_Witness ==
  /\ pc = "branch"
  /\ Len(calls) = 2
  /\ calls[2].outcome = "Exception"
  /\ is_valid = <<FALSE, Sentinel>>

\* C5: the lines remove_duplicate_triples returns are a subsequence of its
\* input's lines, every blank or comment line is kept, and no two of the
\* other output lines are equal once stripped.
C5_DedupOrder ==
  pc = "returned" =>
    LET ins == SplitLines(amr)
        outs == SplitLines(deduped)
    IN /\ IsSubsequence(outs, ins)
       /\ SelectSeq(outs, PassesThrough) = SelectSeq(ins, PassesThrough)
       /\ \A i, j \in 1..Len(outs) :
            (i < j /\ ~PassesThrough(outs[i]) /\ ~PassesThrough(outs[j]))
              => Strip(outs[i]) # Strip(outs[j])

\* C5's case: a line was dropped that differs from the line it repeats only
\* by surrounding blanks, and a comment line passed.
C5_Witness ==
  /\ pc = "returned"
  /\ duplicates > 0
  /\ Len(SplitLines(deduped)) < Len(SplitLines(amr))
  /\ \E i \in 1..Len(SplitLines(amr)) : SplitLines(amr)[i] = <<" ", "x">>
  /\ \E i \in 1..Len(SplitLines(deduped)) : SplitLines(deduped)[i] = <<"x">>
  /\ \E i \in 1..Len(SplitLines(deduped)) : SplitLines(deduped)[i] = <<"#", " ", "c">>

\* The input of the spec's scenario: "(g / gggg) :ARG0 x"
GluedScenario ==
  <<"(", "g", " ", "/", " ", "g", "g", "g", "g", ")", " ", ":", "A", "R", "G", "0", " ", "x">>

\* C6: a role token directly followed by a character that is neither
\* whitespace nor "/" gets a space right after the whole token; for the
\* input "(g / gggg) :ARG0 x" the normalised text has a space after ":ARG0".
C6_RoleSpacing ==
  pc = "balance" =>
    LET ins == InputLines(amr)
        outs == SplitLines(normalized)
    IN /\ \A n \in 1..Len(ins) :
            LET line == FixNodeName(ins[n])
            IN \A i \in RoleStarts(line) :
                 Glued(line, i) =>
                   Contains(outs[n], SubSeq(line, i, TokenEnd(line, i)) \o <<" ">>)
       /\ amr = GluedScenario =>
            Contains(normalized, <<":", "A", "R", "G", "0", " ">>)

\* C7: the duplicate count analyze_amr_file returns is the number of triple
\* keys that occur more than once among the triples of all decoded graphs.
C7_CrossGraphCount ==
  pc = "returned" /\ report # <<>> =>
    report[3] = Cardinality({k \in TripleKeys : all_triples[k] > 1})

\* C8: writing an item counts it in invalid_count and marks it
\* "# INVALID AMR" exactly when validate_amr returned is_valid false, counts
\* it in valid_count otherwise, and the two counts add up to the items written.
C8_VerdictAccounting ==
  [][(pc = "branch" /\ pc' = "written") =>
       LET rejected == (is_valid[1] = FALSE)
       IN /\ invalid_count' = invalid_count + (IF rejected THEN 1 ELSE 0)
          /\ valid_count' = valid_count + (IF rejected THEN 0 ELSE 1)
          /\ StartsWith(written', InvalidMarker) <=> rejected
          /\ valid_count' + invalid_count' = row + 1]_vars

\* The closers the retry appends: text is base followed by n times ")"
ClosersAppended(text, base, n) ==
  /\ Len(text) = Len(base) + n
  /\ SubSeq(text, 1, Len(base)) = base
  /\ \A i \in (Len(base) + 1)..Len(text) : text[i] = ")"

Missing(text) ==
  IF Count(text, "(") > Count(text, ")") THEN Count(text, "(") - Count(text, ")") ELSE 0

\* C9 as stated: decode is called on the unmodified text first; if that call
\* succeeds nothing more is called; whenever it fails, the missing closers are
\* appended and decode is called exactly once more.
C9_RetryOnAnyFailure ==
  pc = "branch" =>
    /\ Len(calls) \in {1, 2}
    /\ calls[1].text = deduped
    /\ calls[1].outcome = "ok" => Len(calls) = 1 /\ is_valid = <<TRUE, deduped>>
    /\ calls[1].outcome # "ok" =>
         /\ Len(calls) = 2
         /\ ClosersAppended(calls[2].text, deduped, Missing(deduped))
         /\ calls[2].outcome = "ok" => is_valid = <<TRUE, calls[2].text>>
         /\ calls[2].outcome # "ok" => is_valid = <<FALSE, Sentinel>>

\* C9 amended: the retry follows a first call that raised DecodeError; after
\* any other exception of the first call decode is not called again and the
\* result is (false, sentinel).
C9_RetryOnDecodeError ==
  pc = "branch" =>
    /\ Len(calls) \in {1, 2}
    /\ calls[1].text = deduped
    /\ calls[1].outcome = "ok" => Len(calls) = 1 /\ is_valid = <<TRUE, deduped>>
    /\ calls[1].outcome = "DecodeError" =>
         /\ Len(calls) = 2
         /\ ClosersAppended(calls[2].text, deduped, Missing(deduped))
         /\ calls[2].outcome = "ok" => is_valid = <<TRUE, calls[2].text>>
         /\ calls[2].outcome # "ok" => is_valid = <<FALSE, Sentinel>>
    /\ calls[1].outcome = "Exception" =>
         Len(calls) = 1 /\ is_valid = <<FALSE, Sentinel>>

\* C9's case: the first call raised DecodeError, closers were missing and
\* were appended, and the second call succeeded.
C9_Witness ==
  /\ pc = "branch"
  /\ Len(calls) = 2
  /\ Missing(deduped) > 0
  /\ calls[2].text # deduped
  /\ is_valid = <<TRUE, calls[2].text>>

\* C10: a line that opens no node definition and whose role tokens are all
\* followed by whitespace or the end of the line is left as it is.
C10_SpacedRolesUnchanged ==
  pc = "balance" =>
    LET ins == InputLines(amr)
        outs == SplitLines(normalized)
    IN \A n \in 1..Len(ins) :
         (~OpensNode(ins[n]) /\ WellSpaced(ins[n])) => outs[n] = ins[n]

====
